---- MODULE Spec2Model ----
(***************************************************************************)
(* A model of src/src/models/markov_chain.py (class MarkovChain) and        *)
(* src/src/models/sentence_generator.py (class SentenceGenerator).          *)
(*                                                                          *)
(* Numbers.  A matrix entry is a fraction num/den.  All entries of one      *)
(* column share the denominator, so a column is a function from row index   *)
(* to numerator together with one denominator.  A column with den = 0 is    *)
(* the column of NaN that numpy produces for 0/0.  Indices are 0-based as   *)
(* in the source.                                                           *)
(***************************************************************************)
EXTENDS Integers, Sequences, FiniteSets, TLC

VARIABLES
    sentences,        \* the lines of the corpus file, each a sequence of words
    gen,              \* the SentenceGenerator object, or NoObject
    chain,            \* the MarkovChain object the running method belongs to
    call,             \* the method being executed
    pc,               \* "new", "idle", "loop" (inside walk), "done" or "raised"
    args,             \* the arguments of the running method
    current_state,    \* local variable of walk / path
    visited_states,   \* local variable of walk / path
    remaining,        \* iterations of walk's for loop still to run
    result,           \* the value returned
    error             \* the exception raised

vars == <<sentences, gen, chain, call, pc, args, current_state,
          visited_states, remaining, result, error>>

----------------------------------------------------------------------------
(* Bounds of the model *)

MaxDim == 3          \* rows / columns of a matrix handed to MarkovChain
PathDim == 3         \* the same, in the specification of paths alone
Den == 2             \* entries of a user matrix are k/Den, k in 0..Den
MaxN == 3            \* the N of walk(start, N)
MaxSentences == 2    \* lines of the corpus
MaxSentLen == 2      \* words of a line
MaxWords == 3        \* words of the corpus
MaxDraws == 4        \* draws made during one call of path or babble

Words == {"a", "b", "$tart", "$top"}
Labels == {5, 6}

NoObject == [kind |-> "none"]
None == "None"
NoDraw == 0 - 1
NoStates == <<>>     \* states=None

----------------------------------------------------------------------------
(* Helpers *)

RECURSIVE SumOver(_, _)
SumOver(f, S) ==
    IF S = {} THEN 0
    ELSE LET x == CHOOSE y \in S : TRUE IN f[x] + SumOver(f, S \ {x})

\* A python list is a function on 0..len-1
LenOf(list) == Cardinality(DOMAIN list)
RangeOf(list) == {list[i] : i \in DOMAIN list}

\* the orders in which a python set can be iterated
Orderings(S) ==
    {p \in [0..(Cardinality(S) - 1) -> S] : \A x \in S : \E i \in DOMAIN p : p[i] = x}

----------------------------------------------------------------------------
(* numpy *)

\* A.shape
Rows(A) == A.m
Cols(A) == A.n

\* A.sum(axis=0)[j] as a fraction <<numerator, denominator>>; 0/0 is NaN
ColumnSum(A, j) == <<SumOver(A.col[j], 0..(A.m - 1)), A.den[j]>>

\* np.allclose(A.sum(axis=0), np.ones(n)): NaN is close to nothing
allclose_ones(A) ==
    \A j \in 0..(A.n - 1) :
        /\ ColumnSum(A, j)[2] # 0
        /\ ColumnSum(A, j)[1] = ColumnSum(A, j)[2]

\* np.argmin in place of np.argmax: the first row the trial did not select
argmin_multinomial(A, j) ==
    {IF i # 0 \/ A.m = 1 THEN 0 ELSE 1 : i \in {i \in 0..(A.m - 1) : A.col[j][i] > 0}}

\* np.argmax(np.random.multinomial(n=1, pvals=A[:, j])): the rows that a single
\* trial can select are those of positive probability
argmax_multinomial(A, j) == {i \in 0..(A.m - 1) : A.col[j][i] > 0}

----------------------------------------------------------------------------
(* MarkovChain *)

\* { state:index for state, index in zip(states, range(n)) }: zip stops at the
\* shorter of the two, and a later occurrence of a key overwrites an earlier one
index_map(states, n) ==
    LET k == IF LenOf(states) < n THEN LenOf(states) ELSE n IN
    [s \in {states[i] : i \in 0..(k - 1)} |->
        CHOOSE i \in 0..(k - 1) :
            /\ states[i] = s
            /\ \A j \in 0..(k - 1) : states[j] = s => j <= i]

\* MarkovChain.__init__ up to the raise
init_raises(A) == ~allclose_ones(A)

\* lines 45-48
default_states(A, states) ==
    IF states = NoStates THEN [i \in 0..(A.n - 1) |-> i] ELSE states

\* MarkovChain.__init__ after the check
MarkovChain(A, states) ==
    [kind |-> "MarkovChain",
     transition_matrix |-> A,
     states |-> default_states(A, states),
     states_index_map |-> index_map(default_states(A, states), A.n)]

\* the draws transition(state) can make; the lookup of an unknown label raises
\* before any draw is made
Draws(ch, state) ==
    IF state \notin DOMAIN ch.states_index_map THEN {NoDraw}
    ELSE argmax_multinomial(ch.transition_matrix, ch.states_index_map[state])

\* MarkovChain.transition when the draw selects row d
transition(ch, state, d) ==
    IF state \notin DOMAIN ch.states_index_map
    THEN [raised |-> "KeyError", value |-> None]
    ELSE IF d \notin DOMAIN ch.states
    THEN [raised |-> "IndexError", value |-> None]
    ELSE [raised |-> None, value |-> ch.states[d]]

\* visited_states.append(x), lines 89 and 112
append(visited, x) == Append(visited, x)

\* line 110
path_continues(current, stop) == current # stop

\* lines 110-112: the loop of path, its draws selecting the rows in draws, one
\* after the other; the loop ends at stop or where a transition raises
RECURSIVE path_loop(_, _, _, _, _)
path_loop(ch, current, visited, stop, draws) ==
    IF ~path_continues(current, stop) \/ draws = <<>>
    THEN [raised |-> None, current_state |-> current, visited_states |-> visited]
    ELSE LET r == transition(ch, current, Head(draws)) IN
         IF r.raised # None
         THEN [raised |-> r.raised, current_state |-> current, visited_states |-> visited]
         ELSE path_loop(ch, r.value, append(visited, r.value), stop, Tail(draws))

\* the labels an iteration of path's loop can produce from label x, and whether
\* an iteration from x can raise; the loop makes no iteration from stop
NextLabels(ch, x, stop) ==
    IF ~path_continues(x, stop) THEN {}
    ELSE {transition(ch, x, d).value :
              d \in {e \in Draws(ch, x) : transition(ch, x, e).raised = None}}
CanRaise(ch, x, stop) ==
    /\ path_continues(x, stop)
    /\ \E d \in Draws(ch, x) : transition(ch, x, d).raised # None

\* the labels the loop of path can get to from the labels X
RECURSIVE Reach(_, _, _)
Reach(ch, X, stop) ==
    LET Y == X \cup UNION {NextLabels(ch, x, stop) : x \in X} IN
    IF Y = X THEN X ELSE Reach(ch, Y, stop)

----------------------------------------------------------------------------
(* python lists and strings *)

\* list.remove(x): the list without the first occurrence of x
RECURSIVE remove(_, _)
remove(list, x) ==
    IF list = <<>> THEN <<>>
    ELSE IF Head(list) = x THEN Tail(list)
    ELSE <<Head(list)>> \o remove(Tail(list), x)

\* ' '.join(list)
RECURSIVE join(_)
join(list) ==
    IF list = <<>> THEN ""
    ELSE IF Len(list) = 1 THEN list[1]
    ELSE list[1] \o " " \o join(Tail(list))

\* str.strip() for a string whose only whitespace is the space
RECURSIVE strip(_)
strip(s) ==
    IF Len(s) = 0 THEN s
    ELSE IF SubSeq(s, 1, 1) = " " THEN strip(SubSeq(s, 2, Len(s)))
    ELSE IF SubSeq(s, Len(s), Len(s)) = " " THEN strip(SubSeq(s, 1, Len(s) - 1))
    ELSE s

----------------------------------------------------------------------------
(* SentenceGenerator.__init__ *)

\* lines 21-25
unique_words(lines) == UNION {{lines[k][i] : i \in 1..Len(lines[k])} : k \in 1..Len(lines)}

\* lines 27-31: the words in the set's iteration order, between the sentinels
state_labels(order) ==
    LET k == LenOf(order) IN
    [i \in 0..(k + 1) |-> IF i = 0 THEN "$tart" ELSE IF i = k + 1 THEN "$top" ELSE order[i - 1]]

\* the words of a sentence last to first
reversed(sentence) == [i \in 1..Len(sentence) |-> sentence[Len(sentence) + 1 - i]]
sentence_words_reversed(sentence) == <<"$tart">> \o reversed(sentence) \o <<"$top">>

\* lines 41-45
sentence_words(sentence) == <<"$tart">> \o sentence \o <<"$top">>

\* lines 38-58: entry (r, c) counts the adjacent pairs (current, next) of all
\* sentences with index c for current and index r for next
count(lines, map, r, c) ==
    Cardinality({p \in UNION {{<<k, i>> : i \in 1..(Len(sentence_words(lines[k])) - 1)} :
                                k \in 1..Len(lines)} :
        LET w == sentence_words(lines[p[1]]) IN
        /\ map[w[p[2]]] = c
        /\ map[w[p[2] + 1]] = r})

\* lines 35-61: the matrix of counts with the ($top, $top) entry set to 1
counts_matrix(lines, labels) ==
    LET n == LenOf(labels)
        map == index_map(labels, n) IN
    [m |-> n, n |-> n,
     col |-> [c \in 0..(n - 1) |-> [r \in 0..(n - 1) |->
                 IF r = n - 1 /\ c = n - 1 THEN 1 ELSE count(lines, map, r, c)]],
     den |-> [c \in 0..(n - 1) |-> 1]]

\* lines 64-65: each column divided by its sum; 0/0 is NaN (den = 0)
normalize(A) ==
    [A EXCEPT !.den = [c \in 0..(A.n - 1) |-> SumOver(A.col[c], 0..(A.m - 1))]]

SentenceGenerator(lines, order) ==
    LET labels == state_labels(order) IN
    [kind |-> "SentenceGenerator",
     state_labels |-> labels,
     transition_matrix |-> normalize(counts_matrix(lines, labels)),
     states_index_map |-> index_map(labels, LenOf(labels))]

----------------------------------------------------------------------------
(* Inputs *)

ColumnsOf(m) ==
    {c \in [0..(m - 1) -> 0..Den] : SumOver(c, 0..(m - 1)) \in {Den - 1, Den}}

\* the m x n matrices with m, n <= dim whose entries are multiples of 1/Den and
\* whose columns sum to 1 or to 1 - 1/Den
Matrices(dim) ==
    UNION {{[m |-> sh[1], n |-> sh[2], col |-> c, den |-> [j \in 0..(sh[2] - 1) |-> Den]] :
                c \in [0..(sh[2] - 1) -> ColumnsOf(sh[1])]} :
           sh \in (1..dim) \X (1..dim)}

\* the m x n matrices with m, n <= dim in which every column is 1 in one row,
\* or 1/2 in two rows, and 0 in the others
OneOrTwo(S) == {{p[1], p[2]} : p \in S \X S}
UniformMatrices(dim) ==
    UNION {{[m |-> sh[1], n |-> sh[2],
             col |-> [j \in 0..(sh[2] - 1) |-> [i \in 0..(sh[1] - 1) |->
                         IF i \in rows[j] THEN 1 ELSE 0]],
             den |-> [j \in 0..(sh[2] - 1) |-> Cardinality(rows[j])]] :
                rows \in [0..(sh[2] - 1) -> OneOrTwo(0..(sh[1] - 1))]} :
           sh \in (1..dim) \X (1..dim)}

\* the states argument: absent, or a list of n labels
LabelLists(n) == [0..(n - 1) -> Labels]
StatesArgs(n) == {NoStates} \cup LabelLists(n)

\* labels a caller can pass: those of the chain and one that is none of them
UnknownLabel(ch) == 0 - 1
LabelArgs(ch) ==
    IF ch.kind = "MarkovChain" THEN RangeOf(ch.states) \cup {UnknownLabel(ch)} ELSE {}

\* the draws of the executions of path's loop from label current that end, at
\* stop or by raising, within k draws
RECURSIVE PathDraws(_, _, _, _)
PathDraws(ch, current, stop, k) ==
    IF ~path_continues(current, stop) THEN {<<>>}
    ELSE IF k = 0 THEN {}
    ELSE UNION {LET r == transition(ch, current, d) IN
                IF r.raised # None THEN {<<d>>}
                ELSE {<<d>> \o t : t \in PathDraws(ch, r.value, stop, k - 1)} :
                d \in Draws(ch, current)}

Sentences == UNION {[1..k -> Words] : k \in 0..MaxSentLen}
RECURSIVE WordCount(_)
WordCount(lines) == IF lines = <<>> THEN 0 ELSE Len(Head(lines)) + WordCount(Tail(lines))

\* the files read: at most MaxSentences lines, of at most MaxWords words in all
Corpora ==
    {lines \in UNION {[1..k -> Sentences] : k \in 0..MaxSentences} :
        WordCount(lines) <= MaxWords}

NoArgs == [start |-> None, stop |-> None, N |-> 0]

----------------------------------------------------------------------------
(* State machine *)

Init ==
    /\ sentences = <<>>
    /\ gen = NoObject
    /\ chain = NoObject
    /\ call = None
    /\ pc = "new"
    /\ args = NoArgs
    /\ current_state = None
    /\ visited_states = <<>>
    /\ remaining = 0
    /\ result = None
    /\ error = None

\* MarkovChain(A, states)
MarkovChainInit(A, states) ==
    /\ pc = "new"
    /\ call' = "MarkovChain"
    /\ IF init_raises(A)
       THEN /\ pc' = "raised"
            /\ error' = "ValueError"
            /\ chain' = chain
       ELSE /\ pc' = "idle"
            /\ error' = error
            /\ chain' = MarkovChain(A, states)
    /\ UNCHANGED <<sentences, gen, args, current_state, visited_states, remaining,
                   result>>

\* SentenceGenerator(filename), the file holding the given lines and the set of
\* words being iterated in the given order
SentenceGeneratorInit(lines, order) ==
    /\ pc = "new"
    /\ call' = "SentenceGenerator"
    /\ sentences' = lines
    /\ gen' = SentenceGenerator(lines, order)
    /\ pc' = "idle"
    /\ UNCHANGED <<chain, args, current_state, visited_states, remaining,
                   result, error>>

\* chain.transition(state), the draw selecting row d
TransitionCall(state, d) ==
    /\ pc = "idle"
    /\ chain.kind = "MarkovChain"
    /\ d \in Draws(chain, state)
    /\ call' = "transition"
    /\ args' = [NoArgs EXCEPT !.start = state]
    /\ LET r == transition(chain, state, d) IN
       IF r.raised # None
       THEN pc' = "raised" /\ error' = r.raised /\ result' = result
       ELSE pc' = "done" /\ error' = error /\ result' = r.value
    /\ UNCHANGED <<sentences, gen, chain, current_state, visited_states,
                   remaining>>

\* chain.walk(start, N), lines 82-85
WalkCall(start, N) ==
    /\ pc = "idle"
    /\ chain.kind = "MarkovChain"
    /\ call' = "walk"
    /\ args' = [NoArgs EXCEPT !.start = start, !.N = N]
    /\ current_state' = start
    /\ visited_states' = <<start>>
    /\ remaining' = IF N - 1 > 0 THEN N - 1 ELSE 0
    /\ pc' = "loop"
    /\ UNCHANGED <<sentences, gen, chain, result, error>>

\* one iteration of walk's loop, lines 87-89, the draw selecting row d
WalkStep(d) ==
    /\ pc = "loop"
    /\ call = "walk"
    /\ remaining > 0
    /\ d \in Draws(chain, current_state)
    /\ LET r == transition(chain, current_state, d) IN
       IF r.raised # None
       THEN /\ pc' = "raised"
            /\ error' = r.raised
            /\ UNCHANGED <<current_state, visited_states, remaining>>
       ELSE /\ current_state' = r.value
            /\ visited_states' = append(visited_states, r.value)
            /\ remaining' = remaining - 1
            /\ UNCHANGED <<pc, error>>
    /\ UNCHANGED <<sentences, gen, chain, call, args, result>>

\* line 91
WalkReturn ==
    /\ pc = "loop"
    /\ call = "walk"
    /\ remaining = 0
    /\ pc' = "done"
    /\ result' = visited_states
    /\ UNCHANGED <<sentences, gen, chain, call, args, current_state, visited_states,
                   remaining, error>>

\* chain.path(start, stop), lines 105-114, the draws of its loop selecting the
\* rows in draws
PathCall(start, stop, draws) ==
    /\ pc = "idle"
    /\ chain.kind = "MarkovChain"
    /\ call' = "path"
    /\ args' = [NoArgs EXCEPT !.start = start, !.stop = stop]
    /\ LET r == path_loop(chain, start, <<start>>, stop, draws) IN
       /\ current_state' = r.current_state
       /\ visited_states' = r.visited_states
       /\ IF r.raised # None
          THEN pc' = "raised" /\ error' = r.raised /\ result' = result
          ELSE pc' = "done" /\ error' = error /\ result' = r.visited_states
    /\ UNCHANGED <<sentences, gen, chain, remaining>>

\* lines 76-79
babble_result(sentence) == strip(join(remove(remove(sentence, "$tart"), "$top")))

\* the chain of line 74
babble_chain(g) == MarkovChain(g.transition_matrix, g.state_labels)

\* the draws of the executions of babble that end within k draws
BabbleDraws(g, k) ==
    IF init_raises(g.transition_matrix) THEN {<<>>}
    ELSE PathDraws(babble_chain(g), "$tart", "$top", k)

\* gen.babble(), lines 74-79, the draws of the path selecting the rows in draws
BabbleCall(draws) ==
    /\ pc = "idle"
    /\ gen.kind = "SentenceGenerator"
    /\ call' = "babble"
    /\ IF init_raises(gen.transition_matrix)
       THEN /\ pc' = "raised"
            /\ error' = "ValueError"
            /\ UNCHANGED <<chain, args, current_state, visited_states, result>>
       ELSE /\ chain' = babble_chain(gen)
            /\ args' = [NoArgs EXCEPT !.start = "$tart", !.stop = "$top"]
            /\ LET r == path_loop(babble_chain(gen), "$tart", <<"$tart">>, "$top", draws) IN
               /\ current_state' = r.current_state
               /\ visited_states' = r.visited_states
               /\ IF r.raised # None
                  THEN pc' = "raised" /\ error' = r.raised /\ result' = result
                  ELSE /\ pc' = "done"
                       /\ error' = error
                       /\ result' = babble_result(r.visited_states)
    /\ UNCHANGED <<sentences, gen, remaining>>

Constructed == pc = "idle" /\ chain.kind = "MarkovChain"

Running(method) == pc = "loop" /\ call = method

PathCalls ==
    /\ Constructed
    /\ \E start \in LabelArgs(chain), stop \in LabelArgs(chain) :
           \E draws \in PathDraws(chain, start, stop, MaxDraws) : PathCall(start, stop, draws)

ChainCalls ==
    \/ /\ Constructed
       /\ \E state \in LabelArgs(chain) : \E d \in Draws(chain, state) : TransitionCall(state, d)
    \/ /\ Constructed
       /\ \E start \in LabelArgs(chain), N \in 1..MaxN : WalkCall(start, N)
    \/ /\ Running("walk")
       /\ \E d \in Draws(chain, current_state) : WalkStep(d)
    \/ WalkReturn
    \/ PathCalls

GenCalls ==
    /\ pc = "idle"
    /\ gen.kind = "SentenceGenerator"
    /\ \E draws \in BabbleDraws(gen, MaxDraws) : BabbleCall(draws)

ChainNext ==
    \/ /\ pc = "new"
       /\ \E A \in Matrices(MaxDim) : \E states \in StatesArgs(A.n) : MarkovChainInit(A, states)
    \/ ChainCalls

\* chains of at most PathDim rows and columns, and their calls of path
PathNext ==
    \/ /\ pc = "new"
       /\ \E A \in UniformMatrices(PathDim) : \E states \in StatesArgs(A.n) :
              MarkovChainInit(A, states)
    \/ PathCalls

GenNext ==
    \/ /\ pc = "new"
       /\ \E lines \in Corpora : \E order \in Orderings(unique_words(lines)) :
              SentenceGeneratorInit(lines, order)
    \/ GenCalls

Next == ChainNext \/ GenNext

Spec == Init /\ [][Next]_vars

PathSpec == Init /\ [][PathNext]_vars

GenSpec == Init /\ [][GenNext]_vars

----------------------------------------------------------------------------
(* Vocabulary of the properties *)

IsChain == chain.kind = "MarkovChain"
IsGenerator == gen.kind = "SentenceGenerator"

\* l is a state label of the chain
IsLabel(ch, l) == l \in RangeOf(ch.states)

\* the column of label S is the identity column
Absorbing(ch, S) ==
    LET A == ch.transition_matrix
        j == ch.states_index_map[S] IN
    /\ j < A.m
    /\ A.den[j] # 0
    /\ \A i \in 0..(A.m - 1) : A.col[j][i] = IF i = j THEN A.den[j] ELSE 0

\* The state reached from column j by a draw of row d: the column of the label
\* of row d, or no state when row d has no label
Dead == 0 - 1
AfterDraw(ch, d) ==
    IF d \in DOMAIN ch.states THEN ch.states_index_map[ch.states[d]] ELSE Dead
Successors(ch, j) ==
    IF j = Dead THEN {}
    ELSE {AfterDraw(ch, d) : d \in {i \in 0..(ch.transition_matrix.m - 1) :
                                        ch.transition_matrix.col[j][i] > 0}}

RECURSIVE Closure(_, _)
Closure(ch, X) ==
    LET Y == X \cup UNION {Successors(ch, j) : j \in X} IN
    IF Y = X THEN X ELSE Closure(ch, Y)

\* stop can be reached from every state that can be reached from start
StopReachable(ch, start, stop) ==
    \A j \in Closure(ch, {ch.states_index_map[start]}) :
        ch.states_index_map[stop] \in Closure(ch, {j})

\* From label x the loop of path returns with probability 1: the chain being
\* finite, that is the case exactly when no step the loop can get to raises
\* and stop can be got to from every label the loop can get to
SurelyReturns(ch, x, stop) ==
    \A y \in Reach(ch, {x}, stop) :
        /\ ~CanRaise(ch, y, stop)
        /\ stop \in Reach(ch, {y}, stop)

\* S is an absorbing state of the chain and start one of its labels
AbsorbingStop(ch, start, S) ==
    /\ IsLabel(ch, start)
    /\ IsLabel(ch, S)
    /\ Absorbing(ch, S)

\* path(start, stop) has been called with a valid start and an absorbing stop
PathToAbsorbing == call = "path" /\ AbsorbingStop(chain, args.start, args.stop)

\* the call has raised nothing, and what it has returned starts with start
\* and ends with stop
PathReturnsStop ==
    /\ pc # "raised"
    /\ pc = "done" => result[1] = args.start /\ result[Len(result)] = args.stop

FirstWords(lines) == {lines[k][1] : k \in {k \in 1..Len(lines) : Len(lines[k]) > 0}}
HasEmptySentence(lines) == \E k \in 1..Len(lines) : Len(lines[k]) = 0

\* a step of the chain from label x can produce label y
CanFollow(ch, x, y) == \E d \in Draws(ch, x) : transition(ch, x, d).value = y

----------------------------------------------------------------------------
(* C1 *)

\* C1: in a chain with an absorbing state S, Path(start, S) from every valid
\* start label terminates and the last element of what it returns is S: for
\* every such start and S of a chain constructed the loop of path returns with
\* probability 1, no call made raises, and the sequence a call returns ends
\* with S.
C1_PathToAbsorbingTerminates ==
    IsChain =>
        /\ Constructed => \A start, S \in RangeOf(chain.states) :
               AbsorbingStop(chain, start, S) => SurelyReturns(chain, start, S)
        /\ PathToAbsorbing => PathReturnsStop

\* C1 as amended: the same, when S can be reached from every state that can be
\* reached from start.
C1_PathTerminatesWhenStopReachable ==
    IsChain =>
        /\ Constructed => \A start, S \in RangeOf(chain.states) :
               (AbsorbingStop(chain, start, S) /\ StopReachable(chain, start, S))
                   => SurelyReturns(chain, start, S)
        /\ (PathToAbsorbing /\ StopReachable(chain, args.start, args.stop))
               => PathReturnsStop

\* a call has returned after coming back to start through another state
C1_Witness ==
    /\ PathToAbsorbing
    /\ StopReachable(chain, args.start, args.stop)
    /\ pc = "done"
    /\ Len(result) = 4
    /\ result[2] # args.start
    /\ result[3] = args.start

----------------------------------------------------------------------------
(* C2 *)

\* C2: babble terminates for every corpus, whatever its words: babble raises
\* nothing, and it returns with its path at "$top".
C2_BabbleTerminates ==
    call = "babble" =>
        /\ pc # "raised"
        /\ pc = "done" => current_state = "$top"

----------------------------------------------------------------------------
(* C3 *)

SingleSentenceBabbled ==
    /\ call = "babble"
    /\ Len(sentences) = 1

\* C3: for a corpus of a single sentence, babble always returns exactly that
\* sentence, its words joined by single spaces.
C3_SingleSentenceReturned ==
    SingleSentenceBabbled =>
        /\ pc # "raised"
        /\ pc = "done" => result = join(sentences[1])

----------------------------------------------------------------------------
(* C4 *)

\* the path of babble has made its first step, transition("$tart")
FromStart == call = "babble" /\ pc = "done" /\ Len(visited_states) >= 2

\* C4: transition from "$tart" in the chain built from the corpus returns the
\* first word of some sentence of the corpus.
C4_FirstWordFollowsStart == FromStart => visited_states[2] \in FirstWords(sentences)

\* C4 as amended: it returns the first word of some sentence, or "$top" when
\* some sentence of the corpus has no words.
C4_FirstWordOrStopFollowsStart ==
    FromStart =>
        \/ visited_states[2] \in FirstWords(sentences)
        \/ visited_states[2] = "$top" /\ HasEmptySentence(sentences)

C4_Witness ==
    /\ FromStart
    /\ Len(sentences) = 2
    /\ visited_states[2] = "b"
    /\ sentences[1] = <<"a", "b">>

----------------------------------------------------------------------------
(* C5 *)

\* C5: in the matrix that SentenceGenerator builds, the column of "$top" (the
\* last one) holds 1 in its last row and 0 in every other row.
C5_StopColumnAbsorbing ==
    IsGenerator =>
        LET A == gen.transition_matrix
            j == A.n - 1 IN
        /\ A.den[j] # 0
        /\ \A i \in 0..(A.m - 1) : A.col[j][i] = IF i = j THEN A.den[j] ELSE 0

----------------------------------------------------------------------------
(* C6 *)

\* C6: SentenceGenerator is not built from an empty corpus, and the matrix of a
\* generator that is built has no column whose counts sum to zero.
C6_NoDegenerateColumn ==
    IsGenerator =>
        /\ Len(sentences) > 0
        /\ \A j \in 0..(gen.transition_matrix.n - 1) : gen.transition_matrix.den[j] # 0

----------------------------------------------------------------------------
(* C7 *)

UnknownArgument ==
    \/ call = "walk" /\ ~IsLabel(chain, args.start)
    \/ call = "path" /\ (~IsLabel(chain, args.start) \/ ~IsLabel(chain, args.stop))

\* C7: walk and path called with a label that is no state label of the chain
\* return no sequence.
C7_UnknownLabelRejected == UnknownArgument => pc # "done"

----------------------------------------------------------------------------
(* C8 *)

\* C8: no MarkovChain is constructed from a matrix that is not square.
C8_NonSquareRejected ==
    IsChain => Rows(chain.transition_matrix) = Cols(chain.transition_matrix)

----------------------------------------------------------------------------
(* C9 *)

Bijective(labels, map) == \A i \in DOMAIN labels : map[labels[i]] = i

\* C9: in every chain and every generator constructed, states_index_map sends
\* the label at index i to i.
C9_IndexMapBijective ==
    /\ IsChain => Bijective(chain.states, chain.states_index_map)
    /\ IsGenerator => Bijective(gen.state_labels, gen.states_index_map)

----------------------------------------------------------------------------
(* C10 *)

\* C10: walk(start, N) with a valid start label and N >= 1 raises nothing and
\* returns N state labels, the first being start and each of the others a
\* label that transition can return for the one before it.
C10_WalkReturnsNLabels ==
    (call = "walk" /\ IsLabel(chain, args.start) /\ args.N >= 1) =>
        /\ pc # "raised"
        /\ pc = "done" =>
              /\ Len(result) = args.N
              /\ result[1] = args.start
              /\ \A i \in 1..Len(result) : IsLabel(chain, result[i])
              /\ \A i \in 1..(Len(result) - 1) : CanFollow(chain, result[i], result[i + 1])

====
